---- MODULE Spec2Model ----
(***************************************************************************)
(* Model of the gateway lifecycle and market-data acquisition code of      *)
(* ibkr-mcp-server:                                                        *)
(*   app/gateway/docker_service.py   IBKRGatewayDockerService              *)
(*   app/gateway/gateway_manager.py  IBKRGatewayManager                    *)
(*   app/main.py                     startup_event / shutdown_event        *)
(*   app/services/market_data.py     MarketDataClient                      *)
(*   app/services/client.py          IBClient                              *)
(*   app/models/market_data.py       TickData                              *)
(* Each part has its own variables, actions and specification; a           *)
(* specification exercises its part with the other parts at rest.          *)
(* Time is counted in whole seconds for the health-check part and in       *)
(* fractions of a second (Res steps per second) for the stabilization loop.*)
(***************************************************************************)
EXTENDS Integers, Sequences, FiniteSets, TLC

VARIABLES
  \* ---- health checks (docker_service.py: health_check and its callers)
  since_last_health_check, \* time.time() - self._last_health_check, seconds,
                           \* capped at the interval (the code only compares it)
  sem_value,           \* self._health_check_semaphore: 1 free, 0 held
  sem_waiters,         \* callers suspended in the semaphore's acquire, FIFO
  hpc,                 \* per caller: position inside health_check / the wait loop
  sleep_left,          \* per caller: seconds left of its asyncio.sleep
  timer,               \* wait_for_container_ready: local timer
  hresult,             \* per caller: value returned by its last call
  min_probe_gap,       \* smallest time between the starts of two consecutive
                       \* _sync_health_check calls so far, capped at the interval
  probe_log            \* the last _sync_health_check that ended

hvars == <<since_last_health_check, sem_value, sem_waiters, hpc, sleep_left,
           timer, hresult, min_probe_gap, probe_log>>

VARIABLES
  \* ---- container lifecycle (docker_service.py, gateway_manager.py, main.py)
  ctr,                 \* the runtime's container named "ibkr-gateway", or None
  next_id,             \* id the runtime gives the next container it creates
  container,           \* self.container: None or a handle [id, status]; status
                       \* is the State.Status held in the handle's cached attrs
  is_running,          \* IBKRGatewayManager.is_running
  ib_gateway_persist,  \* config.ib_gateway_persist
  phase,               \* process: "serving" until shutdown_event, then "down"
  start_pc,            \* start_gateway: "idle", or "waiting" inside
                       \* wait_for_container_ready
  pending,             \* record of the start_gateway call that is waiting
  last_call            \* record of the last completed start/stop call

lvars == <<ctr, next_id, container, is_running, ib_gateway_persist, phase,
           start_pc, pending, last_call>>

VARIABLES
  \* ---- get_tickers (services/market_data.py, services/client.py)
  tpc,                 \* position inside get_tickers
  ib_connected,        \* self.ib.isConnected()
  contracts,           \* secType of each qualified contract of the call
  upstream,            \* tickers returned by the latest reqTickersAsync
  first_result,        \* _process_tickers of the first fetch
  tresult,             \* `result`: _process_tickers of the latest fetch
  ibc_call,            \* the last send_command_to_ibc call
  requested,           \* the call's reqMarketDataType requests, in order
  trace                \* what the call has done so far, in order

tvars == <<tpc, ib_connected, contracts, upstream, first_result, tresult, trace,
           ibc_call, requested>>

VARIABLES
  \* ---- get_market_data_snapshot (services/market_data.py)
  spc,                  \* position inside get_market_data_snapshot
  elapsed,              \* loop.time() - start, in steps of 1/Res second
  consecutive_timeouts, \* the loop's counter
  timed_out,            \* the loop's flag
  timestamp,            \* whether ticker.timestamp is set
  ticker,               \* the ticker's numeric fields as read after the loop
  tick_data,            \* the TickData returned
  md_request,           \* the call's reqMarketDataType request
  error                 \* what the call raised

svars == <<spc, elapsed, consecutive_timeouts, timed_out, timestamp, ticker,
           tick_data, error, md_request>>

VARIABLES
  \* ---- get_container_status / get_container_logs (docker_service.py)
  gpc,            \* position inside get_container_status
  status_pending, \* the get_container_status call waiting for its probe
  read_call       \* the last get_container_status / get_container_logs call

gvars == <<gpc, status_pending, read_call>>

VARIABLES
  \* ---- client identifiers (client.py: _connect; docker_service.py:
  \* _sync_health_check)
  utc_now,             \* dt.datetime.now(dt.UTC): the second of the day
  session_client_id,   \* clientId of the session's last connectAsync, -1: none
  probe_client_id,     \* clientId of the last probe's connectAsync, -1: none
  cpc,                 \* per acquisition task: position inside _connect
  cres                 \* per acquisition task: how its last _connect ended

cvars == <<utc_now, session_client_id, probe_client_id, cpc, cres>>

vars == <<hvars, lvars, tvars, svars, gvars, cvars>>

\* ------------------------------------------------------------------ bounds
NStatusCallers == 2
MaxContainers == 3
MaxBatch == 2
Res == 3
RequestTimeout == 3
MaxTicks == 1
MaxLogLines == 2
MaxTail == 2
NConnectCallers == 3

\* ------------------------------------------------------- program constants
HealthCheckInterval == 2
ConnectionTimeout == 30
ReadySleep == 2
Interval == 1

Min(a, b) == IF a < b THEN a ELSE b

\* Python's None where a container (or a handle to one) is expected.
None == [id |-> 0, status |-> "none"]

\* -------------------------------------------------------- container lifecycle
NoCall ==
  [op |-> "none", via |-> "none", persist |-> FALSE, result |-> FALSE,
   pre_ctr |-> None, post_ctr |-> None, pre_handle |-> None,
   post_handle |-> None, not_found |-> FALSE, pulled |-> FALSE,
   removed |-> FALSE, created |-> FALSE, stopped |-> FALSE,
   adopted |-> FALSE, repeat |-> FALSE]

\* IBKRGatewayDockerService.__init__ / IBKRGatewayManager.__init__, with the
\* runtime holding no container, or one left by an earlier process.
LInit ==
  /\ ctr \in {None, [id |-> 1, status |-> "running"], [id |-> 1, status |-> "exited"]}
  /\ next_id = 2
  /\ container = None
  /\ is_running = FALSE
  /\ ib_gateway_persist \in BOOLEAN
  /\ phase = "boot"
  /\ start_pc = "idle"
  /\ pending = NoCall
  /\ last_call = NoCall

LIdle ==
  /\ ctr = None
  /\ next_id = 2
  /\ container = None
  /\ is_running = FALSE
  /\ ib_gateway_persist = FALSE
  /\ phase = "boot"
  /\ start_pc = "idle"
  /\ pending = NoCall
  /\ last_call = NoCall

\* Whether the container a handle names still exists in the runtime.
Exists(h) == h # None /\ ctr # None /\ ctr.id = h.id

\* ------------------------------------------------------------ health check
Waiter == 0
StatusCallers == 1..NStatusCallers
Callers == {Waiter} \cup StatusCallers

NoProbe ==
  [outcome |-> "none", session |-> "none", result |-> FALSE, raised |-> FALSE]

\* __init__: _last_health_check = 0 lies far in the past of time.time().
HInit ==
  /\ since_last_health_check = HealthCheckInterval
  /\ sem_value = 1
  /\ sem_waiters = <<>>
  /\ hpc = [c \in Callers |-> "idle"]
  /\ sleep_left = [c \in Callers |-> 0]
  /\ timer = 0
  /\ hresult = [c \in Callers |-> "none"]
  /\ min_probe_gap = HealthCheckInterval
  /\ probe_log = NoProbe

\* `self._last_health_check = time.time()` and the start of the probe, both
\* done while holding the semaphore.
StartProbe(c) ==
  /\ since_last_health_check' = 0
  /\ min_probe_gap' = Min(min_probe_gap, since_last_health_check)
  /\ hpc' = [hpc EXCEPT ![c] = "probe"]

\* A health_check that starts its probe without taking the semaphore.
EnterGate_ungated(c) ==
  /\ StartProbe(c)
  /\ UNCHANGED <<sem_value, sem_waiters>>

\* `async with self._health_check_semaphore:` asyncio.Semaphore.acquire
\* returns at once when the semaphore is free and nobody waits for it;
\* otherwise the caller joins the FIFO of waiters.
EnterGate(c) ==
  IF sem_value = 1 /\ sem_waiters = <<>>
  THEN /\ sem_value' = 0
       /\ StartProbe(c)
       /\ UNCHANGED sem_waiters
  ELSE /\ sem_waiters' = Append(sem_waiters, c)
       /\ hpc' = [hpc EXCEPT ![c] = "gate"]
       /\ UNCHANGED <<sem_value, since_last_health_check, min_probe_gap>>

\* health_check up to its first suspension: the rate-limit test is made on
\* the values read at call time, before the semaphore is taken.
health_check(c) ==
  IF since_last_health_check < HealthCheckInterval
  THEN /\ hpc' = [hpc EXCEPT ![c] = "sleep"]
       /\ sleep_left' = [sleep_left EXCEPT ![c] =
                           HealthCheckInterval - since_last_health_check]
       /\ UNCHANGED <<sem_value, sem_waiters, since_last_health_check,
                      min_probe_gap>>
  ELSE /\ EnterGate(c)
       /\ UNCHANGED sleep_left

\* get_container_status on a running container calls health_check once.
StatusCall(c) ==
  /\ c \in StatusCallers
  /\ hpc[c] = "idle"
  /\ health_check(c)
  /\ hresult' = [hresult EXCEPT ![c] = "none"]
  /\ UNCHANGED timer
  /\ UNCHANGED <<probe_log, lvars, tvars, svars, gvars, cvars>>

\* wait_for_container_ready: timer = 0, first health_check.
WaitReadyCall ==
  /\ hpc[Waiter] = "idle"
  /\ timer' = 0
  /\ health_check(Waiter)
  /\ hresult' = [hresult EXCEPT ![Waiter] = "none"]
  /\ UNCHANGED <<probe_log, lvars, tvars, svars, gvars, cvars>>

\* The rate-limit sleep of health_check ends.
SleepDone(c) ==
  /\ hpc[c] = "sleep"
  /\ sleep_left[c] = 0
  /\ EnterGate(c)
  /\ UNCHANGED <<sleep_left, timer, hresult>>
  /\ UNCHANGED <<probe_log, lvars, tvars, svars, gvars, cvars>>

\* A waiter of the semaphore is woken (FIFO) once it is free.
GateAcquire(c) ==
  /\ hpc[c] = "gate"
  /\ sem_value = 1
  /\ sem_waiters # <<>>
  /\ Head(sem_waiters) = c
  /\ sem_value' = 0
  /\ sem_waiters' = Tail(sem_waiters)
  /\ StartProbe(c)
  /\ UNCHANGED <<sleep_left, timer, hresult>>
  /\ UNCHANGED <<probe_log, lvars, tvars, svars, gvars, cvars>>

\* _sync_health_check: connectAsync ends in one of these ways; the result is
\* ib.isConnected() after a completed connect and False after any exception.
ConnectOutcomes == {"connected", "refused", "timeout", "protocol_error"}

sync_health_check(outcome) == outcome = "connected"

\* A probe that disconnects only the sessions that failed to connect.
Disconnects_only_on_failure(outcome) == outcome # "connected"

\* `finally: if ib: ib.disconnect()` runs on every path; ib is the IB()
\* made at line 115, which is truthy.
Disconnects(outcome) == TRUE

\* The end of one _sync_health_check: the state of the session it made at
\* line 115 when it returns, and what it returns. `except Exception` leaves
\* nothing to raise.
ProbeEnd(outcome) ==
  [outcome |-> outcome,
   session |-> IF Disconnects(outcome) THEN "disconnected"
               ELSE IF outcome = "connected" THEN "connected"
               ELSE "abandoned",
   result |-> sync_health_check(outcome),
   raised |-> FALSE]

\* A probe that releases the semaphore only when it returns True.
StatusProbeEnd_holding_gate_on_failure(c) ==
  /\ c \in StatusCallers
  /\ hpc[c] = "probe"
  /\ \E outcome \in ConnectOutcomes :
       /\ probe_log' = ProbeEnd(outcome)
       /\ hresult' = [hresult EXCEPT ![c] =
                        IF sync_health_check(outcome) THEN "healthy" ELSE "unhealthy"]
       /\ sem_value' = IF sync_health_check(outcome) THEN 1 ELSE sem_value
  /\ hpc' = [hpc EXCEPT ![c] = "idle"]
  /\ UNCHANGED <<since_last_health_check, sem_waiters, sleep_left, timer,
                 min_probe_gap>>
  /\ UNCHANGED <<lvars, tvars, svars, gvars, cvars>>

\* The probe of a get_container_status caller ends; the semaphore is released.
StatusProbeEnd(c) ==
  /\ c \in StatusCallers
  /\ hpc[c] = "probe"
  /\ \E outcome \in ConnectOutcomes :
       /\ probe_log' = ProbeEnd(outcome)
       /\ hresult' = [hresult EXCEPT ![c] =
                        IF sync_health_check(outcome) THEN "healthy" ELSE "unhealthy"]
  /\ sem_value' = 1
  /\ hpc' = [hpc EXCEPT ![c] = "idle"]
  /\ UNCHANGED <<since_last_health_check, sem_waiters, sleep_left, timer,
                 min_probe_gap>>
  /\ UNCHANGED <<lvars, tvars, svars, gvars, cvars>>

\* The probe of wait_for_container_ready ends: return True on success,
\* return False once timer > _connection_timeout, else sleep 2 s.
WaitProbeEnd ==
  /\ hpc[Waiter] = "probe"
  /\ sem_value' = 1
  /\ \E outcome \in ConnectOutcomes :
       /\ probe_log' = ProbeEnd(outcome)
       /\ IF sync_health_check(outcome)
          THEN /\ hresult' = [hresult EXCEPT ![Waiter] = "ready"]
               /\ hpc' = [hpc EXCEPT ![Waiter] = "idle"]
               /\ UNCHANGED sleep_left
          ELSE IF timer > ConnectionTimeout
          THEN /\ hresult' = [hresult EXCEPT ![Waiter] = "not_ready"]
               /\ hpc' = [hpc EXCEPT ![Waiter] = "idle"]
               /\ UNCHANGED sleep_left
          ELSE /\ hpc' = [hpc EXCEPT ![Waiter] = "pause"]
               /\ sleep_left' = [sleep_left EXCEPT ![Waiter] = ReadySleep]
               /\ UNCHANGED hresult
  /\ UNCHANGED <<since_last_health_check, sem_waiters, timer, min_probe_gap>>
  /\ UNCHANGED <<lvars, tvars, svars, gvars, cvars>>

\* asyncio.sleep(2) of the wait loop ends: timer += 2 and the next health_check.
WaitPauseDone ==
  /\ hpc[Waiter] = "pause"
  /\ sleep_left[Waiter] = 0
  /\ timer' = timer + ReadySleep
  /\ health_check(Waiter)
  /\ UNCHANGED hresult
  /\ UNCHANGED <<probe_log, lvars, tvars, svars, gvars, cvars>>

\* One second passes. Due sleepers and a woken semaphore waiter run first.
Tick ==
  /\ \A c \in Callers : hpc[c] \in {"sleep", "pause"} => sleep_left[c] > 0
  /\ ~(sem_value = 1 /\ sem_waiters # <<>>)
  /\ since_last_health_check' =
       Min(since_last_health_check + 1, HealthCheckInterval)
  /\ sleep_left' = [c \in Callers |->
                      IF hpc[c] \in {"sleep", "pause"} THEN sleep_left[c] - 1 ELSE 0]
  /\ UNCHANGED <<sem_value, sem_waiters, hpc, timer, hresult, min_probe_gap>>
  /\ UNCHANGED <<probe_log, lvars, tvars, svars, gvars, cvars>>

HNext ==
  \/ \E c \in StatusCallers : StatusCall(c)
  \/ WaitReadyCall
  \/ \E c \in Callers : SleepDone(c)
  \/ \E c \in Callers : GateAcquire(c)
  \/ \E c \in StatusCallers : StatusProbeEnd(c)
  \/ WaitProbeEnd
  \/ WaitPauseDone
  \/ Tick

\* ---- start_gateway
\* A start_gateway that does not look for a running container.
AlreadyRunning_unchecked(existing) == FALSE

\* `existing_container.status == "running"` for the container that
\* client.containers.get(self.container_name) returned (None: NotFound).
AlreadyRunning(existing) == existing # None /\ existing.status = "running"

\* start_gateway up to its first suspension. The runtime calls are
\* synchronous, so they run without another task in between. pull_ok: whether
\* client.images.pull succeeds (an exception makes start_gateway return False).
StartBegin(pull_ok) ==
  /\ phase \in {"boot", "serving"}
  /\ start_pc = "idle"
  /\ LET log == [NoCall EXCEPT !.op = "start", !.via = "manager",
                               !.pre_ctr = ctr, !.pre_handle = container,
                               !.repeat = (last_call.op = "start" /\ last_call.adopted)]
     IN
     IF AlreadyRunning(ctr)
     THEN \* adopt the running container and return True
          /\ container' = [id |-> ctr.id, status |-> ctr.status]
          /\ is_running' = TRUE
          /\ last_call' = [log EXCEPT !.result = TRUE, !.adopted = TRUE,
                                      !.post_ctr = ctr,
                                      !.post_handle = container']
          /\ phase' = "serving"
          /\ UNCHANGED <<ctr, next_id, start_pc, pending>>
     ELSE IF ~pull_ok
     THEN \* existing_container.remove(), then images.pull raises
          /\ ctr' = None
          /\ last_call' = [log EXCEPT !.result = FALSE, !.removed = (ctr # None),
                                      !.post_ctr = None,
                                      !.post_handle = container]
          /\ phase' = "serving"
          /\ UNCHANGED <<next_id, container, is_running, start_pc, pending>>
     ELSE \* remove, pull, containers.run(detach=True), then wait
          /\ next_id <= MaxContainers
          /\ ctr' = [id |-> next_id, status |-> "running"]
          /\ next_id' = next_id + 1
          /\ container' = [id |-> next_id, status |-> "created"]
          /\ pending' = [log EXCEPT !.removed = (ctr # None), !.pulled = TRUE,
                                    !.created = TRUE]
          /\ start_pc' = "waiting"
          /\ UNCHANGED <<is_running, phase, last_call>>
  /\ UNCHANGED ib_gateway_persist
  /\ UNCHANGED <<hvars, tvars, svars, gvars, cvars>>

\* A start_gateway that stops and removes its container when the wait fails.
StartReturn_removing_on_timeout(ready) ==
  /\ start_pc = "waiting"
  /\ start_pc' = "idle"
  /\ ctr' = IF ready \/ ~Exists(container) THEN ctr ELSE None
  /\ container' = IF ready THEN container ELSE None
  /\ last_call' = [pending EXCEPT !.result = ready, !.post_ctr = ctr',
                                  !.post_handle = container']
  /\ pending' = NoCall
  /\ is_running' = (is_running \/ ready)
  /\ phase' = "serving"
  /\ UNCHANGED <<next_id, ib_gateway_persist>>
  /\ UNCHANGED <<hvars, tvars, svars, gvars, cvars>>

\* wait_for_container_ready returns `ready` (its loop is WaitReadyCall ..
\* WaitProbeEnd above); start_gateway returns it, and the manager sets
\* is_running on success.
StartReturn(ready) ==
  /\ start_pc = "waiting"
  /\ start_pc' = "idle"
  /\ last_call' = [pending EXCEPT !.result = ready, !.post_ctr = ctr,
                                  !.post_handle = container]
  /\ pending' = NoCall
  /\ is_running' = (is_running \/ ready)
  /\ phase' = "serving"
  /\ UNCHANGED <<ctr, next_id, container, ib_gateway_persist>>
  /\ UNCHANGED <<hvars, tvars, svars, gvars, cvars>>

\* ---- stop_gateway
\* Where the container disappears from the runtime while stop_gateway runs.
VanishPoints == {"none", "before_stop", "before_remove"}

StopOutcome(res, c, h, nf, st, rm) ==
  [result |-> res, ctr |-> c, handle |-> h, not_found |-> nf,
   stopped |-> st, removed |-> rm]

\* The body of stop_gateway after the persist test (lines 209-229).
StopAndRemove(vanish) ==
  IF container # None
  THEN \* self.container.stop(); self.container.remove(); self.container = None
       \* a NotFound here reaches `except Exception` and returns False
       IF ~Exists(container)
       THEN StopOutcome(FALSE, ctr, container, TRUE, FALSE, FALSE)
       ELSE IF vanish = "before_stop"
       THEN StopOutcome(FALSE, None, container, TRUE, FALSE, FALSE)
       ELSE IF vanish = "before_remove"
       THEN StopOutcome(FALSE, None, container, TRUE, TRUE, FALSE)
       ELSE StopOutcome(TRUE, None, None, FALSE, TRUE, TRUE)
  ELSE \* containers.get / stop / remove inside `except docker.errors.NotFound`
       IF ctr = None
       THEN StopOutcome(TRUE, None, None, TRUE, FALSE, FALSE)
       ELSE IF vanish = "before_stop"
       THEN StopOutcome(TRUE, None, None, TRUE, FALSE, FALSE)
       ELSE IF vanish = "before_remove"
       THEN StopOutcome(TRUE, None, None, TRUE, TRUE, FALSE)
       ELSE StopOutcome(TRUE, None, None, FALSE, TRUE, TRUE)

\* A stop_gateway that ignores its persist flag.
stop_gateway_ignoring_persist(persist, vanish) == StopAndRemove(vanish)

\* DockerService.stop_gateway: with persist nothing is touched.
stop_gateway(persist, vanish) ==
  IF persist
  THEN StopOutcome(TRUE, ctr, container, FALSE, FALSE, FALSE)
  ELSE StopAndRemove(vanish)

\* The container can only vanish during the call if it is there when called.
VanishOk(vanish) ==
  vanish # "none" => (IF container # None THEN Exists(container) ELSE ctr # None)

StopLog(via, persist, o) ==
  [NoCall EXCEPT !.op = "stop", !.via = via, !.persist = persist,
                 !.result = o.result, !.pre_ctr = ctr, !.post_ctr = o.ctr,
                 !.pre_handle = container, !.post_handle = o.handle,
                 !.not_found = o.not_found, !.stopped = o.stopped,
                 !.removed = o.removed]

\* IBKRGatewayManager.stop_gateway: docker_service.stop_gateway() with the
\* default persist=False; is_running is reset on success.
ManagerStop(vanish) ==
  /\ phase = "serving"
  /\ VanishOk(vanish)
  /\ LET o == stop_gateway(FALSE, vanish) IN
       /\ ctr' = o.ctr
       /\ container' = o.handle
       /\ is_running' = IF o.result THEN FALSE ELSE is_running
       /\ last_call' = StopLog("manager", FALSE, o)
  /\ UNCHANGED <<next_id, ib_gateway_persist, phase, start_pc, pending>>
  /\ UNCHANGED <<hvars, tvars, svars, gvars, cvars>>

\* IBKRGatewayDockerService.stop_gateway(persist=...) called on the service.
ServiceStop(persist, vanish) ==
  /\ phase = "serving"
  /\ VanishOk(vanish)
  /\ persist => vanish = "none"
  /\ LET o == stop_gateway(persist, vanish) IN
       /\ ctr' = o.ctr
       /\ container' = o.handle
       /\ last_call' = StopLog("service", persist, o)
  /\ UNCHANGED <<next_id, is_running, ib_gateway_persist, phase, start_pc, pending>>
  /\ UNCHANGED <<hvars, tvars, svars, gvars, cvars>>

\* shutdown_event -> IBKRGatewayManager.cleanup: stop_gateway() if is_running.
ShutdownEvent(vanish) ==
  /\ phase = "serving"
  /\ start_pc = "idle"
  /\ phase' = "down"
  /\ IF is_running
     THEN /\ VanishOk(vanish)
          /\ LET o == stop_gateway(FALSE, vanish) IN
               /\ ctr' = o.ctr
               /\ container' = o.handle
               /\ is_running' = IF o.result THEN FALSE ELSE is_running
               /\ last_call' = [StopLog("manager", FALSE, o) EXCEPT !.op = "cleanup"]
     ELSE /\ vanish = "none"
          /\ last_call' = [NoCall EXCEPT !.op = "cleanup", !.via = "manager",
                                         !.result = TRUE,
                                         !.pre_ctr = ctr, !.post_ctr = ctr,
                                         !.pre_handle = container,
                                         !.post_handle = container]
          /\ UNCHANGED <<ctr, container, is_running>>
  /\ UNCHANGED <<next_id, ib_gateway_persist, start_pc, pending>>
  /\ UNCHANGED <<hvars, tvars, svars, gvars, cvars>>

\* ---- the runtime's own changes
\* The container is removed by someone else (docker rm -f).
ExternalRemove ==
  /\ phase # "down"
  /\ ctr # None
  /\ ctr' = None
  /\ UNCHANGED <<next_id, container, is_running, ib_gateway_persist, phase,
                 start_pc, pending, last_call>>
  /\ UNCHANGED <<hvars, tvars, svars, gvars, cvars>>

\* The container is stopped by someone else (docker stop).
ExternalStop ==
  /\ phase # "down"
  /\ ctr # None
  /\ ctr.status = "running"
  /\ ctr' = [ctr EXCEPT !.status = "exited"]
  /\ UNCHANGED <<next_id, container, is_running, ib_gateway_persist, phase,
                 start_pc, pending, last_call>>
  /\ UNCHANGED <<hvars, tvars, svars, gvars, cvars>>

LNext ==
  \/ \E pull_ok \in BOOLEAN : StartBegin(pull_ok)
  \/ \E ready \in BOOLEAN : StartReturn(ready)
  \/ \E vanish \in VanishPoints : ManagerStop(vanish)
  \/ \E persist \in BOOLEAN, vanish \in VanishPoints : ServiceStop(persist, vanish)
  \/ \E vanish \in VanishPoints : ShutdownEvent(vanish)
  \/ ExternalRemove
  \/ ExternalStop

\* ----------------------------------- get_container_status, get_container_logs
\* What a status record holds: stamped says whether created, started, finished
\* and age are values (TRUE) or None (FALSE).
StatusRecord(status, health, stamped) ==
  [status |-> status, health |-> health, stamped |-> stamped]

\* Lines 148-155.
NotFoundStatus == StatusRecord("not_found", "unknown", FALSE)

\* Lines 179-186.
ErrorStatus == StatusRecord("error", "unknown", FALSE)

NoLogs == [kind |-> "none", lines |-> <<>>]

NoRead ==
  [op |-> "none", known |-> FALSE, absent |-> FALSE, fresh |-> FALSE,
   probed |-> FALSE, probe |-> "none", raised |-> FALSE,
   result |-> StatusRecord("none", "none", FALSE),
   gateway_status |-> "none", tail |-> 0, output |-> <<>>, logs |-> NoLogs]

GInit ==
  /\ gpc = "idle"
  /\ status_pending = NoRead
  /\ read_call = NoRead

\* Lines 140-155: the container_info that get_container_status works on. A
\* held handle gives the attrs it was loaded with (self.container.attrs makes
\* no request); without a handle the container is looked up by name.
ContainerInfo(api_ok) ==
  IF container # None THEN [outcome |-> "info", status |-> container.status]
  ELSE IF ~api_ok THEN [outcome |-> "error", status |-> "none"]
  ELSE IF ctr = None THEN [outcome |-> "not_found", status |-> "none"]
  ELSE [outcome |-> "info", status |-> ctr.status]

\* What health_check can do to its caller.
ProbeOutcomes == {"true", "false", "raised"}

\* A health mapping that reports a raising probe as unhealthy.
HealthOf_without_failed(probe) ==
  IF probe = "true" THEN "healthy" ELSE "unhealthy"

\* Lines 171-175.
HealthOf(probe) ==
  IF probe = "raised" THEN "health_check_failed"
  ELSE IF probe = "true" THEN "healthy"
  ELSE "unhealthy"

\* IBKRGatewayManager.get_gateway_status: building the status dict reads
\* self.gateway_url, which no code assigns; the AttributeError is caught at
\* lines 71-76 and the error record is returned.
get_gateway_status(container_status) == "error_record"

\* The start of a read call: what holds of the container when it is made.
\* absent: the runtime answers and has no such container.
ReadLog(op, api_ok) ==
  [NoRead EXCEPT !.op = op,
                 !.known = (container # None),
                 !.absent = /\ api_ok
                            /\ IF container # None THEN ~Exists(container) ELSE ctr = None,
                 !.fresh = /\ last_call.op = "start"
                           /\ last_call.created
                           /\ last_call.result
                           /\ container = last_call.post_handle
                           /\ Exists(container)
                           /\ ctr.status = "running"]

StatusDone(log, result) ==
  [log EXCEPT !.result = result, !.gateway_status = get_gateway_status(result)]

\* get_container_status up to `await self.health_check()`, or to its return
\* when no probe is made.
StatusBegin(api_ok) ==
  /\ phase = "serving"
  /\ gpc = "idle"
  /\ container # None => api_ok
  /\ LET info == ContainerInfo(api_ok)
         log == ReadLog("status", api_ok)
     IN
     IF info.outcome = "error"
     THEN /\ read_call' = StatusDone(log, ErrorStatus)
          /\ UNCHANGED <<gpc, status_pending>>
     ELSE IF info.outcome = "not_found"
     THEN /\ read_call' = StatusDone(log, NotFoundStatus)
          /\ UNCHANGED <<gpc, status_pending>>
     ELSE IF info.status = "running"
     THEN /\ gpc' = "probing"
          /\ status_pending' = [log EXCEPT !.result = StatusRecord(info.status, "unknown", TRUE)]
          /\ UNCHANGED read_call
     ELSE /\ read_call' = StatusDone(log, StatusRecord(info.status, "unknown", TRUE))
          /\ UNCHANGED <<gpc, status_pending>>
  /\ UNCHANGED <<hvars, lvars, tvars, svars, cvars>>

\* health_check returns or raises; get_container_status returns its record.
\* The probe can only succeed against a running container.
StatusEnd(probe) ==
  /\ gpc = "probing"
  /\ probe = "true" => (ctr # None /\ ctr.status = "running")
  /\ gpc' = "idle"
  /\ read_call' = StatusDone([status_pending EXCEPT !.probed = TRUE, !.probe = probe],
                             [status_pending.result EXCEPT !.health = HealthOf(probe)])
  /\ status_pending' = NoRead
  /\ UNCHANGED <<hvars, lvars, tvars, svars, cvars>>

\* The lines a container can write: with and without surrounding blanks, empty.
RawLines == {"a", " b ", ""}

Outputs == UNION {[1..n -> RawLines] : n \in 0..MaxLogLines}

\* The last n elements of a sequence.
LastLines(out, n) ==
  IF Len(out) <= n THEN out ELSE SubSeq(out, Len(out) - n + 1, Len(out))

\* get_container_logs: self.container.logs(tail=tail).decode("utf-8") is one
\* str holding the last `tail` lines as written; without a handle the
\* sentinel is returned; NotFound or another runtime error is not caught
\* here, nor in get_gateway_logs (the endpoint turns it into a 500 response).
get_container_logs(tail, output, api_ok) ==
  IF container = None THEN [kind |-> "sentinel", lines |-> <<>>]
  ELSE IF ~Exists(container) \/ ~api_ok THEN [kind |-> "raised", lines |-> <<>>]
  ELSE [kind |-> "str", lines |-> LastLines(output, tail)]

\* GET /gateway/logs -> get_gateway_logs -> get_container_logs.
LogsCall(tail, output, api_ok) ==
  /\ phase = "serving"
  /\ (container = None \/ ~Exists(container)) => (output = <<>> /\ api_ok)
  /\ LET r == get_container_logs(tail, output, api_ok) IN
       read_call' = [ReadLog("logs", api_ok) EXCEPT !.tail = tail, !.output = output,
                                            !.logs = r,
                                            !.raised = (r.kind = "raised")]
  /\ UNCHANGED <<gpc, status_pending>>
  /\ UNCHANGED <<hvars, lvars, tvars, svars, cvars>>

\* The lifecycle operations reachable while the server is up: the startup
\* start, the manager's stop, and what happens to the container outside.
ServingNext ==
  \/ \E pull_ok \in BOOLEAN : StartBegin(pull_ok)
  \/ \E ready \in BOOLEAN : StartReturn(ready)
  \/ \E vanish \in VanishPoints : ManagerStop(vanish)
  \/ ExternalRemove
  \/ ExternalStop

StatusNext ==
  \/ ServingNext
  \/ \E api_ok \in BOOLEAN : StatusBegin(api_ok)
  \/ \E probe \in ProbeOutcomes : StatusEnd(probe)

LogsNext ==
  \/ ServingNext
  \/ \E tail \in 1..MaxTail, output \in Outputs, api_ok \in BOOLEAN :
       LogsCall(tail, output, api_ok)

\* ------------------------------------------------------------- get_tickers
SecTypes == {"STK", "OPT", "FOP"}

BatchesOf(S) == UNION {[1..n -> S] : n \in 1..MaxBatch}

\* MarketDataType as the gateway's API numbers it.
LIVE == 1
FROZEN == 2
DELAYED == 3
DELAYED_FROZEN == 4

\* What exchange_calendars answers for "now": a trading minute, not one, or
\* an exception (no calendar for the exchange code).
Calendars == {"open", "closed", "unknown"}

\* _is_market_open: is_trading_minute(now), False on any exception.
is_market_open(calendar) == calendar = "open"

\* Lines 118-123 and 143-146 of get_tickers.
tickers_market_data_type(calendar) ==
  IF is_market_open(calendar) THEN LIVE ELSE DELAYED

NoCommand ==
  [command |-> "none", open_ok |-> FALSE, write_ok |-> FALSE, attempts |-> 0,
   written |-> <<>>, closed |-> FALSE, raised |-> FALSE]

TInit ==
  /\ tpc = "idle"
  /\ ib_connected = FALSE
  /\ contracts = <<>>
  /\ upstream = <<>>
  /\ first_result = <<>>
  /\ tresult = <<>>
  /\ trace = <<>>
  /\ ibc_call = NoCommand
  /\ requested = <<>>

\* A greek extraction that does not look at the security type.
greek_extraction_any_type(tk) == tk.modelGreeks

\* _greek_extraction: greeks only for sec_type "OPT" with modelGreeks populated.
greek_extraction(tk) == tk.sec_type = "OPT" /\ tk.modelGreeks

\* _process_tickers: one TickerData per ticker, in order.
process_tickers(tickers) ==
  [i \in DOMAIN tickers |->
     [sec_type |-> tickers[i].sec_type,
      greeks |-> greek_extraction(tickers[i])]]

\* A restart test that does not ask whether the batch has an option.
NeedsRestart_without_options_check(result) ==
  ~\E i \in DOMAIN result : result[i].greeks

\* Lines 130-136: options_contracts and not has_greeks.
NeedsRestart(result) ==
  LET options_contracts == {i \in DOMAIN result : result[i].sec_type = "OPT"}
      has_greeks == \E i \in options_contracts : result[i].greeks
  IN options_contracts # {} /\ ~has_greeks

Count(ev) == Cardinality({i \in DOMAIN trace : trace[i] = ev})

\* A _connect that tries once more after a failed connectAsync.
connect_retrying(tr, ok) ==
  IF ib_connected THEN <<TRUE, tr, FALSE>>
  ELSE IF ok THEN <<TRUE, Append(tr, "connect"), FALSE>>
  ELSE <<TRUE, Append(Append(tr, "connect_failed"), "connect"), FALSE>>

\* IBClient._connect: nothing when connected, else one connectAsync.
\* Gives the new <<ib_connected, trace, whether it raised>>.
connect(tr, ok) ==
  IF ib_connected THEN <<TRUE, tr, FALSE>>
  ELSE IF ok THEN <<TRUE, Append(tr, "connect"), FALSE>>
  ELSE <<FALSE, Append(tr, "connect_failed"), TRUE>>

\* get_tickers is called: _connect, qualifyContractsAsync, reqMarketDataType
\* and the first reqTickersAsync is issued.
TickersCall(secs, connect_ok, calendar) ==
  /\ tpc = "idle"
  /\ LET c == connect(<<>>, connect_ok) IN
       /\ ib_connected' = c[1]
       /\ IF c[3]
          THEN /\ tpc' = "raised"
               /\ trace' = c[2]
               /\ contracts' = <<>>
               /\ requested' = <<>>
          ELSE /\ tpc' = "fetch1"
               /\ trace' = Append(c[2], "req_tickers")
               /\ contracts' = secs
               /\ requested' = <<[calendar |-> calendar,
                                  type |-> tickers_market_data_type(calendar)]>>
  /\ upstream' = <<>>
  /\ first_result' = <<>>
  /\ tresult' = <<>>
  /\ UNCHANGED <<ibc_call, hvars, lvars, svars, gvars, cvars>>

\* The tickers the gateway returns for the call's contracts; modelGreeks says
\* whether the analytics field of each is populated.
TickersFor(secs, greeks) ==
  [i \in DOMAIN secs |-> [sec_type |-> secs[i], modelGreeks |-> greeks[i]]]

\* The first reqTickersAsync returns (or raises): process, check the greeks,
\* and either return or go on to send the restart command.
FirstFetchDone(greeks, ok) ==
  /\ tpc = "fetch1"
  /\ DOMAIN greeks = DOMAIN contracts
  /\ IF ~ok
     THEN /\ tpc' = "raised"
          /\ UNCHANGED <<upstream, first_result, tresult>>
     ELSE /\ upstream' = TickersFor(contracts, greeks)
          /\ tresult' = process_tickers(upstream')
          /\ first_result' = tresult'
          /\ tpc' = IF NeedsRestart(tresult') THEN "restart" ELSE "returned"
  /\ trace' = IF ok THEN Append(trace, "tickers") ELSE trace
  /\ UNCHANGED <<ib_connected, contracts>>
  /\ UNCHANGED <<ibc_call, requested, hvars, lvars, svars, gvars, cvars>>

\* A send_command_to_ibc that logs a failure and returns.
send_command_to_ibc_swallowing(command, open_ok, write_ok) ==
  [command |-> command, open_ok |-> open_ok, write_ok |-> write_ok,
   attempts |-> IF command = "" THEN 0 ELSE 1,
   written |-> IF command # "" /\ open_ok /\ write_ok THEN <<command, "\n">> ELSE <<>>,
   closed |-> command # "" /\ open_ok /\ write_ok,
   raised |-> FALSE]

\* IBClient.send_command_to_ibc. open_ok: asyncio.open_connection succeeds;
\* write_ok: write and drain succeed. An empty command returns before any
\* connection; a failure is logged and re-raised, the close is then skipped.
send_command_to_ibc(command, open_ok, write_ok) ==
  IF command = ""
  THEN [NoCommand EXCEPT !.command = command, !.open_ok = open_ok,
                         !.write_ok = write_ok]
  ELSE [command |-> command, open_ok |-> open_ok, write_ok |-> write_ok,
        attempts |-> 1,
        written |-> IF open_ok /\ write_ok THEN <<command, "\n">> ELSE <<>>,
        closed |-> open_ok /\ write_ok,
        raised |-> ~(open_ok /\ write_ok)]

Commands == {"", "RESTART", "STOP"}

\* send_command_to_ibc called on the idle client.
SendCommand(command, open_ok, write_ok) ==
  /\ tpc = "idle"
  /\ ~open_ok => write_ok
  /\ ibc_call' = send_command_to_ibc(command, open_ok, write_ok)
  /\ UNCHANGED <<tpc, ib_connected, contracts, upstream, first_result, tresult,
                 trace>>
  /\ UNCHANGED <<requested, hvars, lvars, svars, gvars, cvars>>

\* send_command_to_ibc("RESTART") completes or raises; then asyncio.sleep(30).
SendRestart(open_ok, write_ok) ==
  /\ tpc = "restart"
  /\ ~open_ok => write_ok
  /\ ibc_call' = send_command_to_ibc("RESTART", open_ok, write_ok)
  /\ IF ~ibc_call'.raised
     THEN /\ tpc' = "cooldown"
          /\ trace' = Append(trace, "restart")
     ELSE /\ tpc' = "raised"
          /\ trace' = Append(trace, "restart_failed")
  /\ UNCHANGED <<ib_connected, contracts, upstream, first_result, tresult>>
  /\ UNCHANGED <<requested, hvars, lvars, svars, gvars, cvars>>

\* The 30 s sleep ends: _connect, reqMarketDataType, second reqTickersAsync.
CooldownDone(connect_ok, calendar) ==
  /\ tpc = "cooldown"
  /\ LET c == connect(Append(trace, "cooldown"), connect_ok) IN
       /\ ib_connected' = c[1]
       /\ IF c[3]
          THEN /\ tpc' = "raised"
               /\ trace' = c[2]
               /\ UNCHANGED requested
          ELSE /\ tpc' = "fetch2"
               /\ trace' = Append(c[2], "req_tickers")
               /\ requested' = Append(requested,
                                      [calendar |-> calendar,
                                       type |-> tickers_market_data_type(calendar)])
  /\ UNCHANGED <<contracts, upstream, first_result, tresult>>
  /\ UNCHANGED <<ibc_call, hvars, lvars, svars, gvars, cvars>>

\* A retry that fails the call when the greeks are still missing.
RetryOutcome_raising(result) ==
  [pc |-> IF NeedsRestart(result) THEN "raised" ELSE "returned",
   events |-> <<"tickers">>]

\* Lines 150-159: after the retry a batch still without greeks is logged
\* with a warning and returned like any other.
RetryOutcome(result) ==
  [pc |-> "returned",
   events |-> IF NeedsRestart(result) THEN <<"tickers", "warning">>
              ELSE <<"tickers">>]

\* The second reqTickersAsync returns (or raises): process and return.
SecondFetchDone(greeks, ok) ==
  /\ tpc = "fetch2"
  /\ DOMAIN greeks = DOMAIN contracts
  /\ IF ~ok
     THEN /\ tpc' = "raised"
          /\ UNCHANGED <<upstream, tresult, trace>>
     ELSE /\ upstream' = TickersFor(contracts, greeks)
          /\ tresult' = process_tickers(upstream')
          /\ tpc' = RetryOutcome(tresult').pc
          /\ trace' = trace \o RetryOutcome(tresult').events
  /\ UNCHANGED <<ib_connected, contracts, first_result>>
  /\ UNCHANGED <<ibc_call, requested, hvars, lvars, svars, gvars, cvars>>

\* The caller has its result (or its exception); the client is free again.
TickersFinish ==
  /\ tpc \in {"returned", "raised"}
  /\ tpc' = "idle"
  /\ contracts' = <<>>
  /\ upstream' = <<>>
  /\ first_result' = <<>>
  /\ tresult' = <<>>
  /\ trace' = <<>>
  /\ requested' = <<>>
  /\ UNCHANGED ib_connected
  /\ UNCHANGED <<ibc_call, hvars, lvars, svars, gvars, cvars>>

\* The gateway drops the session (it restarts, or the socket breaks).
SessionLost ==
  /\ ib_connected
  /\ ib_connected' = FALSE
  /\ UNCHANGED <<tpc, contracts, upstream, first_result, tresult, trace>>
  /\ UNCHANGED <<ibc_call, requested, hvars, lvars, svars, gvars, cvars>>

TNext ==
  \/ \E secs \in BatchesOf(SecTypes), ok \in BOOLEAN, calendar \in Calendars :
       TickersCall(secs, ok, calendar)
  \/ \E greeks \in BatchesOf(BOOLEAN), ok \in BOOLEAN : FirstFetchDone(greeks, ok)
  \/ \E command \in Commands, open_ok \in BOOLEAN, write_ok \in BOOLEAN :
       SendCommand(command, open_ok, write_ok)
  \/ \E open_ok \in BOOLEAN, write_ok \in BOOLEAN : SendRestart(open_ok, write_ok)
  \/ \E ok \in BOOLEAN, calendar \in Calendars : CooldownDone(ok, calendar)
  \/ \E greeks \in BatchesOf(BOOLEAN), ok \in BOOLEAN : SecondFetchDone(greeks, ok)
  \/ TickersFinish
  \/ SessionLost

\* ------------------------------------------------ get_market_data_snapshot
\* Python values of the ticker's numeric fields. A finite number is kept in
\* halves (h = 3 is 1.5), with its Python type.
PyNone == [k |-> "none", h |-> 0]
NaN == [k |-> "nan", h |-> 0]
PosInf == [k |-> "inf", h |-> 0]
NegInf == [k |-> "-inf", h |-> 0]
PyFloat(h) == [k |-> "float", h |-> h]
PyInt(n) == [k |-> "int", h |-> 2 * n]

RawValues ==
  {NaN, PosInf, NegInf, PyFloat(0), PyFloat(3), PyFloat(4), PyFloat(-1),
   PyFloat(-2), PyFloat(-5), PyInt(-1), PyInt(2)}

PriceFields == {"last", "close", "bid", "ask"}
SizeFields == {"bid_size", "ask_size", "volume"}
Fields == PriceFields \cup SizeFields

\* A ticker that has received nothing: every field is nan.
EmptyTicker == [f \in Fields |-> NaN]

\* The tickers that differ from the empty one in at most MaxTicks fields.
RawTickers ==
  UNION {{[f \in Fields |-> IF f \in S THEN g[f] ELSE NaN] : g \in [S -> RawValues]} :
           S \in {T \in SUBSET Fields : Cardinality(T) <= MaxTicks}}

\* Python truth of a number: None and zero are false; nan and inf are true.
Truthy(v) == ~(v.k = "none" \/ (v.k \in {"float", "int"} /\ v.h = 0))

\* str(value).lower() in ['nan', 'inf', '-inf', '-1']: str(-1) is "-1" but
\* str(-1.0) is "-1.0".
InRejectList(v) == v.k \in {"nan", "inf", "-inf"} \/ v = PyInt(-1)

\* int(x) truncates toward zero.
Trunc(h) == IF h >= 0 THEN 2 * (h \div 2) ELSE -(2 * ((-h) \div 2))

\* value_type(value) for a finite number.
Convert(v, value_type) ==
  IF value_type = "float" THEN PyFloat(v.h) ELSE [k |-> "int", h |-> Trunc(v.h)]

\* MarketDataClient._valid_value
valid_value(value, value_type) ==
  IF ~Truthy(value) THEN PyNone
  ELSE IF InRejectList(value) THEN PyNone
  ELSE Convert(value, value_type)

\* TickData.validate_price (fields last, bid, ask)
validate_price(v) ==
  IF v = PyNone THEN PyNone
  ELSE IF v.k \in {"nan", "inf", "-inf"} THEN PyNone
  ELSE v

\* TickData.validate_size (fields bid_size, ask_size, volume)
validate_size(v) ==
  IF v = PyNone THEN PyNone
  ELSE IF v.k \in {"nan", "inf", "-inf"} THEN PyNone
  ELSE IF v.h < 0 THEN PyNone
  ELSE v

\* The TickData built at lines 463-475; close has no validator.
TickData(t) ==
  [f \in Fields |->
     IF f \in {"last", "bid", "ask"} THEN validate_price(valid_value(t[f], "float"))
     ELSE IF f = "close" THEN valid_value(t[f], "float")
     ELSE validate_size(valid_value(t[f], "int"))]

NoTickData == [f \in Fields |-> PyNone]

\* The market_data_subscription_type argument.
SubscriptionTypes == {"realtime", "Realtime", "delayed", "frozen"}

\* str.lower() on the subscription types.
Lower(str) == IF str = "Realtime" THEN "realtime" ELSE str

\* A snapshot that never asks for frozen data.
snapshot_market_data_type_never_frozen(subscription_type, calendar) ==
  IF Lower(subscription_type) = "realtime" THEN LIVE ELSE DELAYED

\* Lines 405-415: LIVE or DELAYED by the subscription type, plus one when
\* the market of the contract's exchange is not open.
snapshot_market_data_type(subscription_type, calendar) ==
  LET market_data_type ==
        IF Lower(subscription_type) = "realtime" THEN LIVE ELSE DELAYED
  IN IF ~is_market_open(calendar) THEN market_data_type + 1
     ELSE market_data_type

NoRequest == [subscription_type |-> "none", calendar |-> "none", type |-> 0]

SInit ==
  /\ spc = "idle"
  /\ elapsed = 0
  /\ consecutive_timeouts = 0
  /\ timed_out = FALSE
  /\ timestamp = FALSE
  /\ ticker = EmptyTicker
  /\ tick_data = NoTickData
  /\ error = "none"
  /\ md_request = NoRequest

\* timeout = config.ib_request_timeout; max_consecutive = int(timeout / interval)
max_consecutive == RequestTimeout \div Interval

\* get_market_data_snapshot is called: _connect, qualifyContractsAsync,
\* reqMarketDataType, reqMktData; the loop's locals are set.
SnapshotCall(connect_ok, qualified, subscription_type, calendar) ==
  /\ spc = "idle"
  /\ IF ~connect_ok THEN spc' = "raised" /\ error' = "connect"
     ELSE IF ~qualified THEN spc' = "raised" /\ error' = "qualify"
     ELSE spc' = "waiting" /\ error' = "none"
  /\ md_request' =
       IF connect_ok /\ qualified
       THEN [subscription_type |-> subscription_type, calendar |-> calendar,
             type |-> snapshot_market_data_type(subscription_type, calendar)]
       ELSE NoRequest
  /\ elapsed' = 0
  /\ consecutive_timeouts' = 0
  /\ timed_out' = FALSE
  /\ timestamp' = FALSE
  /\ ticker' = EmptyTicker
  /\ tick_data' = NoTickData
  /\ UNCHANGED <<hvars, lvars, tvars, gvars, cvars>>

\* The gateway delivers a timestamped tick.
TickArrives ==
  /\ spc = "waiting"
  /\ ~timestamp
  /\ timestamp' = TRUE
  /\ UNCHANGED <<spc, elapsed, consecutive_timeouts, timed_out, ticker,
                 tick_data, error>>
  /\ UNCHANGED <<md_request, hvars, lvars, tvars, gvars, cvars>>

\* A loop without the overall-timeout test.
OverallTimeout_never(e) == FALSE

\* `elapsed >= timeout` at lines 454-457.
OverallTimeout(e) == e >= RequestTimeout * Res

\* A loop whose counter survives an update event.
LoopUpdate_keeping_counter(d) ==
  /\ spc = "waiting"
  /\ d \in 1 .. (Interval * Res - 1)
  /\ elapsed' = elapsed + d
  /\ UNCHANGED consecutive_timeouts
  /\ IF OverallTimeout(elapsed')
     THEN timed_out' = TRUE /\ spc' = "exited"
     ELSE UNCHANGED <<timed_out, spc>>
  /\ UNCHANGED <<timestamp, ticker, tick_data, error>>
  /\ UNCHANGED <<md_request, hvars, lvars, tvars, gvars, cvars>>

\* One turn of the loop in which the update event fires d steps into the
\* wait: the counter is reset, then the overall timeout is tested.
LoopUpdate(d) ==
  /\ spc = "waiting"
  /\ d \in 1 .. (Interval * Res - 1)
  /\ elapsed' = elapsed + d
  /\ consecutive_timeouts' = 0
  /\ IF OverallTimeout(elapsed')
     THEN timed_out' = TRUE /\ spc' = "exited"
     ELSE UNCHANGED <<timed_out, spc>>
  /\ UNCHANGED <<timestamp, ticker, tick_data, error>>
  /\ UNCHANGED <<md_request, hvars, lvars, tvars, gvars, cvars>>

\* One turn of the loop in which wait_for times out after `interval`: the
\* counter grows; break on a timestamp or on max_consecutive, else test the
\* overall timeout.
LoopTimeout ==
  /\ spc = "waiting"
  /\ elapsed' = elapsed + Interval * Res
  /\ consecutive_timeouts' = consecutive_timeouts + 1
  /\ IF timestamp \/ consecutive_timeouts' >= max_consecutive
     THEN spc' = "exited" /\ UNCHANGED timed_out
     ELSE IF OverallTimeout(elapsed')
     THEN timed_out' = TRUE /\ spc' = "exited"
     ELSE UNCHANGED <<timed_out, spc>>
  /\ UNCHANGED <<timestamp, ticker, tick_data, error>>
  /\ UNCHANGED <<md_request, hvars, lvars, tvars, gvars, cvars>>

\* A final test on the timeout flag instead of the timestamp.
NoData_if_timed_out == timed_out

\* `not ticker.timestamp` at line 459.
NoData == ~timestamp

\* After the loop: raise the data-unavailable error, or read the ticker's
\* fields and return the TickData. The loop's locals go out of scope.
SnapshotFinish(raw) ==
  /\ spc = "exited"
  /\ IF NoData
     THEN /\ raw = EmptyTicker
          /\ spc' = "raised"
          /\ error' = "no_data"
          /\ UNCHANGED <<ticker, tick_data>>
     ELSE /\ spc' = "returned"
          /\ ticker' = raw
          /\ tick_data' = TickData(raw)
          /\ UNCHANGED error
  /\ elapsed' = 0
  /\ consecutive_timeouts' = 0
  /\ timed_out' = FALSE
  /\ UNCHANGED timestamp
  /\ UNCHANGED <<md_request, hvars, lvars, tvars, gvars, cvars>>

\* The caller has its result (or its exception).
SnapshotDone ==
  /\ spc \in {"returned", "raised"}
  /\ spc' = "idle"
  /\ error' = "none"
  /\ timestamp' = FALSE
  /\ ticker' = EmptyTicker
  /\ tick_data' = NoTickData
  /\ md_request' = NoRequest
  /\ UNCHANGED <<elapsed, consecutive_timeouts, timed_out>>
  /\ UNCHANGED <<hvars, lvars, tvars, gvars, cvars>>

SNext ==
  \/ \E connect_ok \in BOOLEAN, qualified \in BOOLEAN,
        subscription_type \in SubscriptionTypes, calendar \in Calendars :
       SnapshotCall(connect_ok, qualified, subscription_type, calendar)
  \/ TickArrives
  \/ \E d \in 1 .. (Interval * Res) : LoopUpdate(d)
  \/ LoopTimeout
  \/ \E raw \in RawTickers : SnapshotFinish(raw)
  \/ SnapshotDone

\* ------------------------------------------------------ client identifiers
\* The acquisition operations that share the client's session.
ConnectCallers == 1 .. NConnectCallers

CInit ==
  /\ utc_now = 0
  /\ session_client_id = -1
  /\ probe_client_id = -1
  /\ cpc = [c \in ConnectCallers |-> "idle"]
  /\ cres = [c \in ConnectCallers |-> "none"]

ProbeClientId == 1111

\* strftime("%H%M%S"): two decimal digits each for hour, minute and second.
strftime_HMS(t) ==
  LET hh == t \div 3600
      mm == (t % 3600) \div 60
      ss == t % 60
  IN <<hh \div 10, hh % 10, mm \div 10, mm % 10, ss \div 10, ss % 10>>

\* The number the gateway reads from a client identifier sent as decimal
\* digits; leading zeros do not count.
RECURSIVE DecimalValue(_)
DecimalValue(digits) ==
  IF digits = <<>> THEN 0
  ELSE 10 * DecimalValue(SubSeq(digits, 1, Len(digits) - 1)) + digits[Len(digits)]

\* IBClient._connect at the time utc_now: nothing when connected, else
\* connectAsync with clientId = now.strftime("%H%M%S").
ConnectSession(ok) ==
  /\ ~ib_connected
  /\ session_client_id' = DecimalValue(strftime_HMS(utc_now))
  /\ ib_connected' = ok
  /\ UNCHANGED <<utc_now, probe_client_id, cpc, cres>>
  /\ UNCHANGED <<tpc, contracts, upstream, first_result, tresult, trace,
                 ibc_call, requested>>
  /\ UNCHANGED <<hvars, lvars, svars, gvars>>

\* _sync_health_check: connectAsync("127.0.0.1", API_PORT, 1111).
ConnectProbe ==
  /\ probe_client_id' = ProbeClientId
  /\ probe_client_id # ProbeClientId
  /\ UNCHANGED <<utc_now, session_client_id, cpc, cres>>
  /\ UNCHANGED <<hvars, lvars, tvars, svars, gvars>>

\* A task calls _connect: it returns at once when ib.isConnected(), else it
\* awaits connectAsync. Nothing keeps a second task from doing the same
\* while the first one is suspended there.
ConnectCall(c) ==
  /\ cpc[c] = "idle"
  /\ IF ib_connected
     THEN /\ cres' = [cres EXCEPT ![c] = "reused"]
          /\ cres[c] # "reused"
          /\ UNCHANGED cpc
     ELSE /\ cpc' = [cpc EXCEPT ![c] = "connecting"]
          /\ cres' = [cres EXCEPT ![c] = "none"]
  /\ UNCHANGED <<utc_now, session_client_id, probe_client_id>>
  /\ UNCHANGED <<hvars, lvars, tvars, svars, gvars>>

\* The connectAsync of a task ends: connected, or an exception that
\* _connect logs and raises again.
ConnectDone(c, ok) ==
  /\ cpc[c] = "connecting"
  /\ cpc' = [cpc EXCEPT ![c] = "idle"]
  /\ cres' = [cres EXCEPT ![c] = IF ok THEN "connected" ELSE "raised"]
  /\ ib_connected' = ok
  /\ UNCHANGED <<utc_now, session_client_id, probe_client_id>>
  /\ UNCHANGED <<tpc, contracts, upstream, first_result, tresult, trace,
                 ibc_call, requested>>
  /\ UNCHANGED <<hvars, lvars, svars, gvars>>

\* Acquisition tasks calling _connect on the shared session.
ConcurrentConnectNext ==
  \/ \E c \in ConnectCallers : ConnectCall(c)
  \/ \E c \in ConnectCallers, ok \in BOOLEAN : ConnectDone(c, ok)
  \/ SessionLost

CNext ==
  \/ \E ok \in BOOLEAN : ConnectSession(ok)
  \/ ConnectProbe
  \/ SessionLost

\* ---------------------------------------------------------- specifications
\* Each part of the program is checked on its own, the other parts at rest.
InitHealth == HInit /\ LIdle /\ TInit /\ SInit /\ GInit /\ CInit

SpecHealth == InitHealth /\ [][HNext]_vars

\* The event loop runs every task that is ready, every sleep and every
\* connection attempt of a probe ends, and time passes.
HFair ==
  /\ WF_vars(Tick)
  /\ WF_vars(WaitProbeEnd)
  /\ WF_vars(WaitPauseDone)
  /\ \A c \in Callers : WF_vars(SleepDone(c)) /\ WF_vars(GateAcquire(c))
  /\ \A c \in StatusCallers : WF_vars(StatusProbeEnd(c))

SpecHealthFair == InitHealth /\ [][HNext]_vars /\ HFair

\* health_check called by get_container_status tasks only.
StatusProbesNext ==
  \/ \E c \in StatusCallers : StatusCall(c)
  \/ \E c \in StatusCallers : SleepDone(c)
  \/ \E c \in StatusCallers : GateAcquire(c)
  \/ \E c \in StatusCallers : StatusProbeEnd(c)
  \/ Tick

SpecStatusProbesFair == InitHealth /\ [][StatusProbesNext]_vars /\ HFair

InitLifecycle == LInit /\ HInit /\ TInit /\ SInit /\ GInit /\ CInit

SpecLifecycle == InitLifecycle /\ [][LNext]_vars

\* The lifecycle together with the status reads, and with the log reads.
SpecStatus == InitLifecycle /\ [][StatusNext]_vars

SpecLogs == InitLifecycle /\ [][LogsNext]_vars

InitTickers == TInit /\ HInit /\ LIdle /\ SInit /\ GInit /\ CInit

InitSnapshot == SInit /\ HInit /\ LIdle /\ TInit /\ GInit /\ CInit

SpecSnapshot == InitSnapshot /\ [][SNext]_vars

SpecTickers == InitTickers /\ [][TNext]_vars

\* The two acquisition paths of one client, each exercised while the other
\* is at rest.
AcquisitionNext ==
  \/ SInit /\ TNext
  \/ TInit /\ SNext

SpecAcquisition == InitTickers /\ [][AcquisitionNext]_vars

\* The session and the probe connecting at any second of the day.
InitClientId ==
  /\ utc_now \in 0 .. (24 * 3600 - 1)
  /\ session_client_id = -1
  /\ probe_client_id = -1
  /\ cpc = [c \in ConnectCallers |-> "idle"]
  /\ cres = [c \in ConnectCallers |-> "none"]
  /\ TInit /\ HInit /\ LIdle /\ SInit /\ GInit

SpecClientId == InitClientId /\ [][CNext]_vars

SpecConnect == InitTickers /\ [][ConcurrentConnectNext]_vars

\* ------------------------------------------------------------------ claims
\* C1: the starts of any two probes are at least one health-check interval
\* apart (at most one probe is dispatched per interval).
C1_ProbesOnePerInterval == min_probe_gap >= HealthCheckInterval

\* C4: stop_gateway(persist=False) returns success whenever the container
\* does not exist at the moment of the stop or remove call (a runtime
\* "not found"), whether or not the controller holds a handle.
C4_StopNotFoundIsSuccess ==
  (last_call.op \in {"stop", "cleanup"} /\ ~last_call.persist /\ last_call.not_found)
    => last_call.result

\* C5: after shutdown_event the container is gone when persistence is not
\* configured, and is left as it was when persistence is configured.
C5_ShutdownStopsUnlessPersist ==
  phase = "down" =>
    IF ib_gateway_persist THEN ctr = last_call.pre_ctr ELSE ctr = None

\* C6: a start_gateway call that finds the named container running returns
\* True, adopts that container, and pulls, removes and creates nothing.
C6_StartIdempotent ==
  (last_call.op = "start" /\ last_call.pre_ctr.status = "running") =>
    /\ last_call.result
    /\ last_call.post_handle.id = last_call.pre_ctr.id
    /\ last_call.post_ctr = last_call.pre_ctr
    /\ ~last_call.pulled
    /\ ~last_call.removed
    /\ ~last_call.created

\* Two consecutive start_gateway calls both found the container running.
C6_Witness ==
  /\ last_call.op = "start"
  /\ last_call.pre_ctr.status = "running"
  /\ last_call.repeat
  /\ last_call.result

\* C7: stop_gateway(persist=True) returns True, issues no stop and no remove,
\* and leaves the handle and the container as they were.
C7_PersistStopChangesNothing ==
  (last_call.op = "stop" /\ last_call.persist) =>
    /\ last_call.result
    /\ ~last_call.stopped
    /\ ~last_call.removed
    /\ last_call.post_handle = last_call.pre_handle
    /\ last_call.post_ctr = last_call.pre_ctr

\* stop_gateway(persist=True) was called on a running container that the
\* controller holds.
C7_Witness ==
  /\ last_call.op = "stop"
  /\ last_call.persist
  /\ last_call.pre_ctr.status = "running"
  /\ last_call.pre_handle # None
  /\ ctr.status = "running"

\* The condition of the claim on the first fetch: at least one OPT snapshot
\* and no OPT snapshot with greeks.
C2_Degraded ==
  /\ \E i \in DOMAIN first_result : first_result[i].sec_type = "OPT"
  /\ \A i \in DOMAIN first_result :
       first_result[i].sec_type = "OPT" => ~first_result[i].greeks

\* send_command_to_ibc("RESTART") calls made by the call so far.
C2_RestartIssued == Count("restart") + Count("restart_failed")

\* C2: within one get_tickers call the restart command is issued if and only
\* if the first batch has an option and no option got greeks, at most once,
\* and a second fetch is issued only after it was sent; a call that returns
\* has sent exactly one restart and issued two fetches in that case, and no
\* restart and one fetch otherwise.
C2_RestartIffNoGreeks ==
  /\ Count("restart") <= 1
  /\ Count("req_tickers") <= 2
  /\ C2_RestartIssued <= 1
  /\ C2_RestartIssued = 1 => C2_Degraded
  /\ (C2_Degraded /\ tpc # "restart") => C2_RestartIssued = 1
  /\ Count("req_tickers") = 2 => Count("restart") = 1
  /\ tpc \in {"restart", "cooldown", "fetch2"} <=> (C2_Degraded /\ tpc \notin {"returned", "raised"})
  /\ tpc = "returned" =>
       IF C2_Degraded
       THEN Count("restart") = 1 /\ Count("req_tickers") = 2
       ELSE Count("restart") = 0 /\ Count("req_tickers") = 1

\* A call with one option and one equity, no greeks on the first fetch, has
\* returned after one restart and two fetches.
C2_Witness ==
  /\ tpc = "returned"
  /\ C2_Degraded
  /\ \E i \in DOMAIN first_result : first_result[i].sec_type = "STK"
  /\ Count("restart") = 1
  /\ Count("req_tickers") = 2

\* C9: a returned snapshot carries greeks only if its security type is OPT
\* and the upstream modelGreeks field is populated; a non-option never does.
C9_GreeksOnlyForOptions ==
  /\ DOMAIN tresult \subseteq DOMAIN upstream
  /\ \A i \in DOMAIN tresult :
       /\ tresult[i].sec_type = upstream[i].sec_type
       /\ tresult[i].greeks => (upstream[i].sec_type = "OPT" /\ upstream[i].modelGreeks)
       /\ upstream[i].sec_type # "OPT" => ~tresult[i].greeks

\* The retry returned a non-option whose modelGreeks is populated upstream,
\* without greeks, next to an option with greeks.
C9_Witness ==
  /\ tpc = "returned"
  /\ Count("req_tickers") = 2
  /\ \E i \in DOMAIN tresult :
       upstream[i].sec_type # "OPT" /\ upstream[i].modelGreeks /\ ~tresult[i].greeks
  /\ \E i \in DOMAIN tresult : tresult[i].greeks

\* C3: the stabilization loop never runs past overall_timeout + interval:
\* a turn starts only before the overall timeout, every turn takes time, and
\* the loop ends with a timestamped value or with a timeout.
C3_LoopEndsInTime ==
  /\ spc = "waiting" => elapsed < RequestTimeout * Res
  /\ spc = "exited" =>
       /\ elapsed <= (RequestTimeout + Interval) * Res
       /\ timestamp \/ timed_out \/ consecutive_timeouts >= max_consecutive

\* Updates arrived in every interval and the loop ended, on the overall
\* timeout, in the last step before overall_timeout + interval.
C3_Witness ==
  /\ spc = "exited"
  /\ timed_out
  /\ consecutive_timeouts = 0
  /\ elapsed = (RequestTimeout + Interval) * Res - 2

\* C8: in the returned TickData a field whose upstream value is nan, +inf or
\* -inf, or a size or volume whose upstream value is negative, is None.
C8_InvalidValuesAbsent ==
  spc = "returned" =>
    \A f \in Fields :
      /\ ticker[f].k \in {"nan", "inf", "-inf"} => tick_data[f] = PyNone
      /\ (f \in SizeFields /\ ticker[f].k \in {"float", "int"} /\ ticker[f].h < 0)
           => tick_data[f] = PyNone

C11_DegradedRetryReturns ==
  (Count("tickers") = 2 /\ NeedsRestart(process_tickers(upstream))) =>
    /\ tpc = "returned"
    /\ tresult = process_tickers(upstream)
    /\ DOMAIN tresult = DOMAIN contracts
    /\ \A i \in DOMAIN tresult : ~tresult[i].greeks
    /\ Count("warning") = 1

\* An option and an equity were fetched twice, the option never got greeks,
\* and the call returned.
C11_Witness ==
  /\ tpc = "returned"
  /\ Count("tickers") = 2
  /\ Count("warning") = 1
  /\ \E i \in DOMAIN contracts : contracts[i] = "OPT"
  /\ \E i \in DOMAIN contracts : contracts[i] = "STK"
  /\ \A i \in DOMAIN tresult : ~tresult[i].greeks

\* The last call was a start_gateway that created a container and timed out
\* waiting for it, and that container is still the one held and running.
C12_AfterTimedOutStart ==
  /\ start_pc = "idle"
  /\ last_call.op = "start"
  /\ last_call.created
  /\ ~last_call.result
  /\ container = last_call.post_handle
  /\ Exists(container)
  /\ ctr.status = "running"

\* C12: a start_gateway that created a container and returns false for want
\* of a successful probe touches neither the container nor the handle and
\* does not mark the gateway running; the next start_gateway adopts that same
\* container and the next stop_gateway stops and removes that same container.
C12_TimeoutLeavesContainer ==
  [][ /\ (start_pc = "waiting" /\ start_pc' = "idle" /\ ~last_call'.result) =>
           /\ ctr' = ctr
           /\ container' = container
           /\ last_call'.post_handle = container
           /\ last_call'.post_ctr = ctr
           /\ is_running' = is_running
      /\ (C12_AfterTimedOutStart /\ last_call' # last_call /\ last_call'.op = "start") =>
           /\ last_call'.adopted
           /\ last_call'.result
           /\ container'.id = container.id
           /\ ctr' = ctr
      /\ (C12_AfterTimedOutStart /\ last_call'.op = "stop" /\ ~last_call'.persist
            /\ ~last_call'.not_found) =>
           /\ last_call'.pre_handle = container
           /\ last_call'.stopped
           /\ last_call'.removed
           /\ ctr' = None
    ]_vars

\* A start created a container, timed out, and left it held and running.
C12_Witness ==
  /\ C12_AfterTimedOutStart
  /\ container # None
  /\ ~is_running

\* C13: a get_container_status made after start_gateway created the container
\* and returned true, with the container still running and the probe (if one
\* is made) succeeding, reports status running and health healthy.
C13_StatusReadAtCallTime ==
  (read_call.op = "status" /\ read_call.fresh
     /\ (read_call.probed => read_call.probe = "true")) =>
    /\ read_call.result.status = "running"
    /\ read_call.result.health = "healthy"

\* C14: a get_container_status made while the container is absent returns
\* the not_found record (null timestamps and age), whether or not a handle
\* is held.
C14_AbsentIsNotFound ==
  (read_call.op = "status" /\ read_call.absent) =>
    read_call.result = NotFoundStatus

\* C15: get_container_status never raises; when the status it reports is
\* running it has made one probe and health is healthy, unhealthy or
\* health_check_failed as the probe returned true, returned false or raised;
\* otherwise it has made no probe and health is unknown.
C15_HealthFollowsProbe ==
  /\ gpc = "probing" => status_pending.result.status = "running"
  /\ read_call.op = "status" =>
       /\ ~read_call.raised
       /\ IF read_call.result.status = "running"
          THEN /\ read_call.probed
               /\ read_call.probe = "true" => read_call.result.health = "healthy"
               /\ read_call.probe = "false" => read_call.result.health = "unhealthy"
               /\ read_call.probe = "raised" =>
                    read_call.result.health = "health_check_failed"
          ELSE /\ ~read_call.probed
               /\ read_call.result.health = "unknown"

\* A status call on a running container whose probe raised.
C15_Witness ==
  /\ read_call.op = "status"
  /\ read_call.result.status = "running"
  /\ read_call.probe = "raised"
  /\ read_call.result.health = "health_check_failed"

\* C16: get_container_logs never raises, and returns the sentinel when no
\* container is known.
C16_LogsNeverRaise ==
  read_call.op = "logs" =>
    /\ ~read_call.raised
    /\ ~read_call.known => read_call.logs.kind = "sentinel"

\* str.strip() of a line.
C17_Trim(line) == IF line = " b " THEN "b" ELSE line

C17_NonEmpty(line) == line # ""

\* The last `tail` lines, trimmed, without the empty ones.
C17_Lines(output, tail) ==
  SelectSeq([i \in DOMAIN LastLines(output, tail) |->
               C17_Trim(LastLines(output, tail)[i])], C17_NonEmpty)

\* C17: for a known container get_container_logs returns the sequence of the
\* last `tail` lines, trimmed and without empty lines.
C17_LogsAreLines ==
  (read_call.op = "logs" /\ read_call.known /\ ~read_call.raised) =>
    /\ read_call.logs.kind = "list"
    /\ read_call.logs.lines = C17_Lines(read_call.output, read_call.tail)

\* C18: every _sync_health_check that has ended has disconnected the session
\* it made, whatever the connection attempt came to, has raised nothing, and
\* has returned true exactly when that session got connected.
C18_ProbeAlwaysDisconnects ==
  probe_log.outcome # "none" =>
    /\ probe_log.session = "disconnected"
    /\ ~probe_log.raised
    /\ probe_log.result <=> probe_log.outcome = "connected"

\* A probe whose connection succeeded and one whose connection timed out
\* have both ended: the last one timed out after a caller was told healthy.
C18_Witness ==
  /\ probe_log.outcome = "timeout"
  /\ probe_log.session = "disconnected"
  /\ \E c \in StatusCallers : hresult[c] = "healthy"

\* C19: send_command_to_ibc with an empty command opens no connection and
\* writes nothing; with a command it makes one connection, and either writes
\* the command and a newline and closes, or raises because the connection or
\* the write failed; a get_tickers whose restart command failed has raised
\* without a second fetch, and one past the restart has had it written.
C19_CommandSentOrRaised ==
  /\ ibc_call.command = "" =>
       /\ ibc_call.attempts = 0
       /\ ibc_call.written = <<>>
       /\ ~ibc_call.raised
  /\ ibc_call.command \notin {"", "none"} =>
       /\ ibc_call.attempts = 1
       /\ IF ibc_call.open_ok /\ ibc_call.write_ok
          THEN /\ ibc_call.written = <<ibc_call.command, "\n">>
               /\ ibc_call.closed
               /\ ~ibc_call.raised
          ELSE /\ ibc_call.written = <<>>
               /\ ibc_call.raised
  /\ Count("restart_failed") = 1 =>
       /\ tpc = "raised"
       /\ ibc_call.raised
       /\ Count("req_tickers") = 1
       /\ Count("restart") = 0
  /\ tpc \in {"cooldown", "fetch2"} =>
       /\ ibc_call.written = <<"RESTART", "\n">>
       /\ ibc_call.closed

\* A get_tickers call raised because its restart command could not be
\* written.
C19_Witness ==
  /\ tpc = "raised"
  /\ Count("restart_failed") = 1
  /\ ibc_call.command = "RESTART"
  /\ ibc_call.open_ok
  /\ ~ibc_call.write_ok

C20_Attempts(tr) ==
  Cardinality({i \in DOMAIN tr : tr[i] \in {"connect", "connect_failed"}})

\* A step in which get_tickers calls _connect, with the attempts its trace
\* held before the call.
C20_ConnectStep(before) ==
  IF ib_connected
  THEN /\ C20_Attempts(trace') = before
       /\ ib_connected'
       /\ tpc' # "raised"
  ELSE /\ C20_Attempts(trace') = before + 1
       /\ \/ /\ ib_connected'
             /\ tpc' # "raised"
             /\ Count("connect_failed")' = Count("connect_failed")
          \/ /\ ~ib_connected'
             /\ tpc' = "raised"
             /\ trace'[Len(trace')] = "connect_failed"

\* C20: _connect makes no connection attempt when the session is connected;
\* otherwise it makes exactly one attempt, and a failed attempt is raised to
\* the caller with the session left disconnected.
C20_OneAttemptPerCall ==
  [][/\ (tpc = "idle" /\ tpc' # "idle") => C20_ConnectStep(0)
     /\ (tpc = "cooldown" /\ tpc' # "cooldown") =>
          C20_ConnectStep(C20_Attempts(trace))]_vars

\* A get_tickers call raised out of its single failed connection attempt.
C20_Witness ==
  /\ tpc = "raised"
  /\ trace = <<"connect_failed">>
  /\ ~ib_connected

\* C21: at most one caller is inside _sync_health_check at any time, and the
\* semaphore is held exactly while a caller is inside it.
C21_OneProbeInFlight ==
  /\ Cardinality({c \in Callers : hpc[c] = "probe"}) <= 1
  /\ (\E c \in Callers : hpc[c] = "probe") <=> sem_value = 0

\* One caller probes while two others wait for the semaphore.
C21_Witness ==
  /\ \E c \in Callers : hpc[c] = "probe"
  /\ Len(sem_waiters) = 2
  /\ sem_value = 0

\* Whether the events of seq occur in the trace in this order.
C22_InOrder(seq) ==
  \E pos \in [DOMAIN seq -> DOMAIN trace] :
    /\ \A i \in DOMAIN seq : trace[pos[i]] = seq[i]
    /\ \A i \in DOMAIN seq : i > 1 => pos[i - 1] < pos[i]

\* The order of a self-healing call without the reconnection: it holds.
C22_OrderWithoutReconnect ==
  Count("req_tickers") = 2 =>
    C22_InOrder(<<"req_tickers", "tickers", "restart", "cooldown", "req_tickers">>)

\* C22: a get_tickers call that issued its second ticker request did so
\* after, in this order, the first fetch, the restart command, the cooldown
\* and a completed new connection.
C22_SecondFetchAfterReconnect ==
  Count("req_tickers") = 2 =>
    C22_InOrder(<<"req_tickers", "tickers", "restart", "cooldown", "connect",
                  "req_tickers">>)

\* C23: a turn of the stabilization loop that ends while the ticker has a
\* timestamp leaves the loop, whether the turn ended by an update event or
\* by the interval running out.
C23_ExitsOnTimestamp ==
  [][(spc = "waiting" /\ timestamp /\ elapsed' # elapsed) => spc' = "exited"]_vars

\* C24: in each turn of the stabilization loop an update event sets the
\* counter to zero and an interval without one adds one to it; the counter
\* never exceeds max_consecutive, and the turn in which it reaches
\* max_consecutive leaves the loop.
C24_CounterResetAndBounded ==
  [][(spc = "waiting" /\ elapsed' # elapsed) =>
       /\ (elapsed' - elapsed < Interval * Res) => consecutive_timeouts' = 0
       /\ (elapsed' - elapsed = Interval * Res) =>
            consecutive_timeouts' = consecutive_timeouts + 1
       /\ elapsed' - elapsed <= Interval * Res
       /\ consecutive_timeouts' <= max_consecutive
       /\ consecutive_timeouts' = max_consecutive => spc' = "exited"]_vars

\* The loop was left by the counter reaching max_consecutive after an update
\* event had reset it.
C24_Witness ==
  /\ spc = "exited"
  /\ consecutive_timeouts = max_consecutive
  /\ elapsed > RequestTimeout * Res
  /\ ~timed_out

\* C25: wait_for_container_ready starts no probe once more than the
\* connection timeout has passed since it was called. Its timer counts the
\* seconds it has slept between probes, so no more than the time passed.
C25_NoProbeAfterTimeout ==
  [][(hpc[Waiter] # "probe" /\ hpc'[Waiter] = "probe") =>
       timer' <= ConnectionTimeout]_vars

\* C26: every market data type get_tickers requests, on the first attempt
\* and on the retry, is Live when the calendar reports a trading minute and
\* Delayed otherwise; get_market_data_snapshot requests Live for the class
\* realtime and Delayed for any other class when the exchange is open, and
\* Frozen and DelayedFrozen in their place when it is closed or has no
\* calendar.
C26_TypeByPathClassAndMarket ==
  /\ \A i \in DOMAIN requested :
       requested[i].type =
         IF requested[i].calendar = "open" THEN LIVE ELSE DELAYED
  /\ Len(requested) = Count("req_tickers")
  /\ md_request # NoRequest =>
       md_request.type =
         IF md_request.subscription_type \in {"realtime", "Realtime"}
         THEN (IF md_request.calendar = "open" THEN LIVE ELSE FROZEN)
         ELSE (IF md_request.calendar = "open" THEN DELAYED ELSE DELAYED_FROZEN)
  /\ spc \in {"waiting", "exited", "returned"} => md_request # NoRequest

\* A snapshot of the delayed class was asked for an exchange that has no
\* calendar.
C26_Witness ==
  /\ spc = "waiting"
  /\ md_request.subscription_type = "delayed"
  /\ md_request.calendar = "unknown"
  /\ md_request.type = DELAYED_FROZEN

\* C27: the client identifier of a probe never equals the client identifier
\* under which the session was connected, whatever the time of day of the
\* session's connection.
C27_ProbeIdNeverSessionId ==
  (session_client_id # -1 /\ probe_client_id # -1) =>
    session_client_id # probe_client_id

\* C28: every caller inside health_check, whether in its rate-limit sleep,
\* waiting for the semaphore or probing, eventually is out of it again.
C28_EveryCallReturns ==
  \A c \in Callers :
    (hpc[c] \in {"sleep", "gate", "probe"}) ~> (hpc[c] \in {"idle", "pause"})

\* After an earlier probe ended in an exception, one caller probes while
\* every other status caller waits for the semaphore.
C28_Witness ==
  /\ probe_log.outcome = "protocol_error"
  /\ Len(sem_waiters) = NStatusCallers - 1
  /\ \E c \in StatusCallers : hpc[c] = "probe"

\* C29: in the returned TickData every field whose upstream value is a
\* finite number that is not negative, zero included (and a whole number for
\* the sizes and the volume), holds that number.
C29_ValidValuesKept ==
  spc = "returned" =>
    \A f \in Fields :
      (/\ ticker[f].k \in {"float", "int"}
       /\ ticker[f].h >= 0
       /\ f \in SizeFields => ticker[f].h % 2 = 0)
        => (tick_data[f].k \in {"float", "int"} /\ tick_data[f].h = ticker[f].h)

\* C30: at most one task is inside connectAsync of the shared session at
\* any time.
C30_OneAttemptInFlight ==
  Cardinality({c \in ConnectCallers : cpc[c] = "connecting"}) <= 1

====
